---- MODULE Spec2Model ----
(***************************************************************************)
(* Model of the eotwsink HTTP service (src/src/main.rs): the upload,       *)
(* download and health handlers over the shared storage root, each request *)
(* handled by its own task.                                                *)
(*                                                                         *)
(* Strings are sequences of characters.  A payload is a sequence of        *)
(* blocks of bytes.  A path is the character sequence the code formats;    *)
(* its directory structure is read back from the "/" characters in it.     *)
(***************************************************************************)
EXTENDS Integers, Sequences, FiniteSets, TLC

\* ------------------------------------------------------------------ bounds
\* Requests handled one at a time: the parts clients send over a run, in
\* however many requests, and the last second of the clock.
MaxFields == 2
MaxClock == 1

\* Requests handled concurrently: the same two bounds.
ConcFields == 2
ConcClock == 1

\* The request-handling tasks that may be in flight together.
Tasks == {1, 2}

\* ------------------------------------------------------------------ inputs
\* Original file names a client sends in a part's Content-Disposition.
FileNames == {<<"a">>, <<".", ".", "/">>, <<".", ".", "\\">>}
\* Payloads a client sends.
Payloads == {<<"x", "x">>, <<"y">>}

\* Option<T> / Result<T, E> values: None (or Err) is the empty sequence,
\* Some(v) (or Ok(v)) the one-element sequence.
None == <<>>
Some(v) == <<v>>

\* What is known of a part of a body when the request arrives: that it is a
\* well-formed file part, that it carries no file name, or that it is broken
\* in another way.  The rest of the part is drawn when the handler reads it.
PartKinds == {"file", "no_file_name", "broken"}

\* What next_field() and the field's accessors can yield for a part of each
\* kind: the parser's error, or a field with its name, file name and payload
\* (None for a name that is absent or a payload that cannot be read).
Field(err, name, file_name, data) ==
    [err |-> err, name |-> name, file_name |-> file_name, data |-> data]
FieldsOf(kind) ==
    CASE kind = "file" ->
           {Field(FALSE, Some("file"), Some(n), Some(d)) : n \in FileNames, d \in Payloads}
      [] kind = "no_file_name" ->
           {Field(FALSE, name, None, Some(<<"y">>)) : name \in {None, Some("file")}}
      [] kind = "broken" ->
           {Field(TRUE, None, None, None),
            Field(FALSE, None, Some(<<"a">>), Some(<<"y">>)),
            Field(FALSE, Some("file"), Some(<<"a">>), None)}

RECURSIVE SeqsUpTo(_, _)
SeqsUpTo(S, n) ==
    IF n = 0 THEN {<<>>}
    ELSE LET shorter == SeqsUpTo(S, n - 1)
         IN  shorter \cup {Append(s, x) : s \in {q \in shorter : Len(q) = n - 1}, x \in S}

\* The multipart bodies of up to n parts a client sends.
Bodies(n) == SeqsUpTo(PartKinds, n)

\* ------------------------------------------------------------------ paths
data_dir == <<"/", "opt", "/", "eotw_data">>

\* now.format("%Y-%m-%d"): the calendar day of a clock reading.  A model day
\* is two seconds long.
DateDir(now) == <<"day", ToString(now \div 2)>>

\* format!("/opt/eotw_data/{}", date_dir)
UploadDir(now) == data_dir \o <<"/">> \o DateDir(now)

\* A replace that forgets the backslash.
ReplaceSlashOnly(s) ==
    [i \in 1..Len(s) |-> IF s[i] = "/" THEN "_" ELSE s[i]]

\* file_name.replace(['/', '\\'], "_")
ReplaceSeparators(s) ==
    [i \in 1..Len(s) |-> IF s[i] \in {"/", "\\"} THEN "_" ELSE s[i]]

\* format!("{}_{}", timestamp, file_name.replace(['/', '\\'], "_"))
SafeFileName(timestamp, file_name) ==
    <<ToString(timestamp), "_">> \o ReplaceSeparators(file_name)

\* format!("{}/{}", upload_dir, safe_file_name)
FilePath(dir, safe_file_name) == dir \o <<"/">> \o safe_file_name

\* The directory a path lies in, as the filesystem reads the path: all that
\* precedes its last "/".
Parent(path) ==
    LET seps == {i \in 1..Len(path) : path[i] = "/"}
        last == CHOOSE i \in seps : \A j \in seps : j <= i
    IN  IF seps = {} THEN <<>> ELSE SubSeq(path, 1, last - 1)

\* path.strip_prefix(data_dir): the path relative to the storage root.
StripPrefix(path, base) ==
    IF Len(path) > Len(base) /\ SubSeq(path, 1, Len(base) + 1) = base \o <<"/">>
    THEN Some(SubSeq(path, Len(base) + 2, Len(path)))
    ELSE None

\* ---------------------------------------------------------------- responses
Json(status, key, text) == [status |-> status, key |-> key, text |-> text]
NotFound == Json(404, "error", "No resources could be found.")
BadRequest(msg) == Json(400, "error", msg)
InternalError(msg) == Json(500, "error", msg)
UploadOk == Json(200, "status", "File uploaded successfully")
HealthOk == Json(200, "status", "Server is running :)")
ZipOk == Json(200, "body", "application/zip")
NoResponse == Json(0, "", "")

\* ------------------------------------------------------------------- state
VARIABLES
    clock,        \* the system clock, in seconds
    dirs,         \* the directories that exist
    files,        \* the regular files that exist: path -> contents
    workers,      \* how many requests the runtime handles at once
    limit,        \* the bounds of the run
    handler,      \* per task: the handler it runs ("none" when it runs none)
    pc,           \* per task: where its handler stands
    resp,         \* per task: the response its handler returned
    multipart,    \* per task: the parts of the body not yet read
    nread,        \* per task: the parts read so far
    field,        \* per task: the field the loop holds
    upload_dir,   \* per task: upload_dir
    file_saved,   \* per task: file_saved
    timestamp,    \* per task: timestamp
    file_path,    \* per task: file_path (None before it is computed)
    log,          \* per task: its "File uploaded" lines, one per part saved
    with,         \* per task: the tasks that ran an upload while its upload ran
    zip,          \* per task: the archive's entries: name -> contents
    walk,         \* per task: the directory walk: what is left to visit
    seen,         \* per task: what its download met: the files there and the
                  \* payloads saved when it began, whether every upload had
                  \* succeeded by then and none ran since, whether I/O failed
    nfields,      \* parts sent so far
    nsaved,       \* parts saved so far
    sent,         \* the payloads of the parts saved so far: payload -> count
    any_failed    \* whether an upload request has answered an error

vars == <<clock, dirs, files, workers, limit, handler, pc, resp, multipart, nread,
          field, upload_dir, file_saved, timestamp, file_path, log, with, zip,
          walk, seen, nfields, nsaved, sent, any_failed>>

upvars == <<multipart, nread, field, upload_dir, file_saved, timestamp,
            file_path, log>>
dlvars == <<zip, walk, seen>>
counts == <<nfields, nsaved, sent, any_failed>>

NoField == Field(FALSE, None, None, None)
NoWalk == [dirs |-> {}, files |-> {}]
NoSeen == [files |-> {}, sent |-> <<>>, clean |-> FALSE, io_error |-> FALSE]
Empty == [x \in {} |-> <<>>]

InFlight == {t \in Tasks : pc[t] # "idle"}
Uploading == {t \in Tasks : handler[t] = "upload" /\ pc[t] \notin {"idle", "done"}}
Downloading == {t \in Tasks : handler[t] = "download" /\ pc[t] \notin {"idle", "done"}}

\* main(): the storage root is created before the server accepts a request.
InitWith(w, lim) ==
    /\ clock = 0
    /\ dirs = {data_dir}
    /\ files = Empty
    /\ workers = w
    /\ limit = lim
    /\ handler = [t \in Tasks |-> "none"]
    /\ pc = [t \in Tasks |-> "idle"]
    /\ resp = [t \in Tasks |-> NoResponse]
    /\ multipart = [t \in Tasks |-> <<>>]
    /\ nread = [t \in Tasks |-> 0]
    /\ field = [t \in Tasks |-> NoField]
    /\ upload_dir = [t \in Tasks |-> <<>>]
    /\ file_saved = [t \in Tasks |-> FALSE]
    /\ timestamp = [t \in Tasks |-> 0]
    /\ file_path = [t \in Tasks |-> None]
    /\ log = [t \in Tasks |-> <<>>]
    /\ with = [t \in Tasks |-> {}]
    /\ zip = [t \in Tasks |-> Empty]
    /\ walk = [t \in Tasks |-> NoWalk]
    /\ seen = [t \in Tasks |-> NoSeen]
    /\ nfields = 0
    /\ nsaved = 0
    /\ sent = [d \in Payloads |-> 0]
    /\ any_failed = FALSE

Init ==
    InitWith(Cardinality(Tasks),
             [fields |-> ConcFields, clock |-> ConcClock])

InitSeq ==
    InitWith(1, [fields |-> MaxFields, clock |-> MaxClock])

\* The runtime hands a request to a task that runs none; which one makes no
\* difference, and it is the first.
Free(t) ==
    /\ pc[t] = "idle"
    /\ \A u \in Tasks : pc[u] = "idle" => t <= u
    /\ Cardinality(InFlight) < workers

\* ------------------------------------------------------------- filesystem
\* A handler that leaves the creation of the directory for later.
CreateDirAllLater(ds, dir) == ds

\* fs::create_dir_all(dir): the directory and its missing ancestors exist
\* afterwards.
CreateDirAll(ds, dir) == ds \cup {data_dir, dir}

\* File::create(path), the first half of fs::write: the file exists and is
\* empty afterwards.  It needs the directory the path lies in.
CanCreate(ds, path) == Parent(path) \in ds
Truncate(fs, path) == (path :> <<>>) @@ fs

\* write(data) at offset 0 of an open file: the bytes replace what the file
\* holds there and leave what lies beyond them.
Overlay(old, data) == data \o SubSeq(old, Len(data) + 1, Len(old))
WriteAt0(fs, path, data) == (path :> Overlay(fs[path], data)) @@ fs

\* The sub-directories and the regular files a directory holds.
SubDirs(ds, dir) == {d \in ds : Parent(d) = dir}
FilesIn(fs, dir) == {p \in DOMAIN fs : Parent(p) = dir}

\* ------------------------------------------------------------------ upload
\* upload_log, lines 95-102: file_saved = false; the daily directory is
\* created; then the loop starts.
UploadStart(t) ==
    /\ Free(t)
    /\ \E body \in Bodies(limit.fields - nfields), dir_ok \in BOOLEAN :
        /\ nfields' = nfields + Len(body)
        /\ handler' = [handler EXCEPT ![t] = "upload"]
        /\ multipart' = [multipart EXCEPT ![t] = body]
        /\ file_saved' = [file_saved EXCEPT ![t] = FALSE]
        /\ upload_dir' = [upload_dir EXCEPT ![t] = UploadDir(clock)]
        /\ with' = [u \in Tasks |->
                      IF u = t THEN Uploading
                      ELSE IF u \in Uploading THEN with[u] \cup {t} ELSE with[u]]
        /\ seen' = [u \in Tasks |->
                      IF u \in Downloading THEN [seen[u] EXCEPT !.clean = FALSE]
                      ELSE seen[u]]
        /\ IF dir_ok
           THEN /\ dirs' = CreateDirAll(dirs, UploadDir(clock))
                /\ pc' = [pc EXCEPT ![t] = "next_field"]
                /\ UNCHANGED <<resp, any_failed>>
           ELSE /\ dirs' = dirs
                /\ pc' = [pc EXCEPT ![t] = "done"]
                /\ resp' = [resp EXCEPT ![t] = InternalError("Failed to create directory")]
                /\ any_failed' = TRUE
    /\ UNCHANGED <<clock, files, workers, limit, nread, field, timestamp, file_path, log,
                   zip, walk, nsaved, sent>>

\* An error that is recorded while the loop goes on to the next part.
FailAndContinue(t, error) ==
    /\ pc' = [pc EXCEPT ![t] = "next_field"]
    /\ resp' = [resp EXCEPT ![t] = error]
    /\ any_failed' = TRUE

\* The request ends with an error: `?` returns it.
Fail(t, error) ==
    /\ pc' = [pc EXCEPT ![t] = "done"]
    /\ resp' = [resp EXCEPT ![t] = error]
    /\ any_failed' = TRUE

\* A missing file name reported as an internal error.
FieldErrorWrongKind(f) ==
    IF f.err THEN Some(BadRequest("Failed to read multipart field"))
    ELSE IF f.name = None THEN Some(BadRequest("Field name is missing"))
    ELSE IF f.file_name = None THEN Some(InternalError("File name is missing"))
    ELSE IF f.data = None THEN Some(BadRequest("Failed to read file data"))
    ELSE None

\* Lines 105-117: the error, if any, of reading a part: of next_field(), of
\* the field name, of the file name and of the payload, in this order.
FieldError(f) ==
    IF f.err THEN Some(BadRequest("Failed to read multipart field"))
    ELSE IF f.name = None THEN Some(BadRequest("Field name is missing"))
    ELSE IF f.file_name = None THEN Some(BadRequest("File name is missing"))
    ELSE IF f.data = None THEN Some(BadRequest("Failed to read file data"))
    ELSE None

\* One turn of the loop, lines 105-126, up to the File::create inside
\* fs::write: the next part is read and checked, its path is computed and its
\* file is opened.
UploadNextField(t) ==
    /\ handler[t] = "upload" /\ pc[t] = "next_field"
    /\ multipart[t] # <<>>
    /\ multipart' = [multipart EXCEPT ![t] = Tail(multipart[t])]
    /\ nread' = [nread EXCEPT ![t] = nread[t] + 1]
    /\ \E f \in FieldsOf(Head(multipart[t])), create_ok \in BOOLEAN :
        /\ field' = [field EXCEPT ![t] = f]
        /\ IF FieldError(f) # None
           THEN /\ Fail(t, FieldError(f)[1])
                /\ file_path' = [file_path EXCEPT ![t] = None]
                /\ UNCHANGED <<timestamp, files>>
           ELSE
           LET path == FilePath(upload_dir[t], SafeFileName(clock, f.file_name[1])) IN
           /\ timestamp' = [timestamp EXCEPT ![t] = clock]
           /\ file_path' = [file_path EXCEPT ![t] = Some(path)]
           /\ IF create_ok /\ CanCreate(dirs, path)
              THEN /\ files' = Truncate(files, path)
                   /\ pc' = [pc EXCEPT ![t] = "write"]
                   /\ UNCHANGED <<resp, any_failed>>
              ELSE /\ Fail(t, InternalError("Failed to save file"))
                   /\ files' = files
    /\ UNCHANGED <<clock, dirs, workers, limit, handler, upload_dir, file_saved, log,
                   with, dlvars, nfields, nsaved, sent>>

\* println!("File uploaded: {} -> {}", file_name, file_path), with the
\* payload, the second and the rank of the save it reports.
LogLine(f, path, ts, nth) ==
    [file_name |-> f.file_name[1], file_path |-> path, data |-> f.data[1],
     timestamp |-> ts, nth |-> nth]

\* The write_all inside fs::write, lines 126-129: all of the payload is
\* written, or the write fails after some of it.
UploadWrite(t) ==
    /\ handler[t] = "upload" /\ pc[t] = "write"
    /\ LET path == file_path[t][1]
           data == field[t].data[1]
       IN  \E n \in 0..Len(data) :
            /\ files' = WriteAt0(files, path, SubSeq(data, 1, n))
            /\ IF n = Len(data)
               THEN /\ file_saved' = [file_saved EXCEPT ![t] = TRUE]
                    /\ log' = [log EXCEPT ![t] =
                                 Append(log[t], LogLine(field[t], path, timestamp[t], nsaved + 1))]
                    /\ nsaved' = nsaved + 1
                    /\ sent' = [sent EXCEPT ![data] = sent[data] + 1]
                    /\ pc' = [pc EXCEPT ![t] = "next_field"]
                    /\ UNCHANGED <<resp, any_failed>>
               ELSE /\ Fail(t, InternalError("Failed to save file"))
                    /\ UNCHANGED <<file_saved, log, nsaved, sent>>
    /\ UNCHANGED <<clock, dirs, workers, limit, handler, multipart, nread, field,
                   upload_dir, timestamp, file_path, with, dlvars, nfields>>

\* A handler that forgets to look at file_saved.
EndResponseAlwaysOk(saved) == UploadOk

\* Lines 132-139: the response once the loop has ended.
EndResponse(saved) ==
    IF saved THEN UploadOk ELSE BadRequest("No file was uploaded")

\* The loop ends, lines 105 and 132-139: next_field() yields no part.
UploadEnd(t) ==
    /\ handler[t] = "upload" /\ pc[t] = "next_field"
    /\ multipart[t] = <<>>
    /\ pc' = [pc EXCEPT ![t] = "done"]
    /\ resp' = [resp EXCEPT ![t] = EndResponse(file_saved[t])]
    /\ any_failed' = (any_failed \/ EndResponse(file_saved[t]).status # 200)
    /\ UNCHANGED <<clock, dirs, files, workers, limit, handler, upvars, with, dlvars,
                   nfields, nsaved, sent>>

\* ---------------------------------------------------------------- download
\* download_log, lines 43-58: the root is looked up, the archive is opened and
\* the walk reads the root.  A directory the walk cannot read yields an Err
\* entry, which filter_map(|e| e.ok()) drops.
DownloadStart(t) ==
    /\ Free(t)
    /\ handler' = [handler EXCEPT ![t] = "download"]
    /\ \E read_ok \in BOOLEAN :
        IF data_dir \notin dirs
        THEN /\ pc' = [pc EXCEPT ![t] = "done"]
             /\ resp' = [resp EXCEPT ![t] = NotFound]
             /\ UNCHANGED <<walk, seen>>
        ELSE /\ pc' = [pc EXCEPT ![t] = "walk"]
             /\ resp' = resp
             /\ walk' = [walk EXCEPT ![t] =
                           [dirs |-> IF read_ok THEN SubDirs(dirs, data_dir) ELSE {},
                            files |-> IF read_ok THEN FilesIn(files, data_dir) ELSE {}]]
             /\ seen' = [seen EXCEPT ![t] =
                           [files |-> DOMAIN files, sent |-> sent,
                            clean |-> (Uploading = {} /\ ~any_failed),
                            io_error |-> ~read_ok]]
    /\ UNCHANGED <<clock, dirs, files, workers, limit, upvars, with, zip, nfields, nsaved,
                   sent, any_failed>>

\* The walk enters the next directory, lines 55-58.
DownloadReadDir(t) ==
    /\ handler[t] = "download" /\ pc[t] = "walk"
    /\ walk[t].files = {}
    /\ \E dir \in walk[t].dirs, read_ok \in BOOLEAN :
        /\ walk' = [walk EXCEPT ![t] =
                      [dirs |-> (walk[t].dirs \ {dir})
                                \cup (IF read_ok THEN SubDirs(dirs, dir) ELSE {}),
                       files |-> IF read_ok THEN FilesIn(files, dir) ELSE {}]]
        /\ seen' = [seen EXCEPT ![t].io_error = seen[t].io_error \/ ~read_ok]
    /\ UNCHANGED <<clock, dirs, files, workers, limit, handler, pc, resp, upvars, with,
                   zip, counts>>

\* zip.write(&file_data), line 70: Write::write takes some of the buffer, at
\* least one block of a buffer that has one, and says how much; the code
\* drops the count.
ZipWriteCounts(data) == IF data = <<>> THEN {0} ELSE 1..Len(data)
ZipWrite(archive, name, data, n) == (name :> SubSeq(data, 1, n)) @@ archive

\* The next file of the walk, lines 60-71: it is read and written to the
\* archive under its path relative to the root.
DownloadFile(t) ==
    /\ handler[t] = "download" /\ pc[t] = "walk"
    /\ \E path \in walk[t].files, outcome \in {"ok", "read_failed", "zip_failed"} :
        LET name == StripPrefix(path, data_dir) IN
        /\ walk' = [walk EXCEPT ![t].files = walk[t].files \ {path}]
        /\ IF name = None
           THEN /\ pc' = [pc EXCEPT ![t] = "done"]
                /\ resp' = [resp EXCEPT ![t] = InternalError("Path error")]
                /\ UNCHANGED <<zip, seen>>
           ELSE IF outcome = "read_failed"
           THEN /\ pc' = [pc EXCEPT ![t] = "done"]
                /\ resp' = [resp EXCEPT ![t] = InternalError("Failed to read file")]
                /\ seen' = [seen EXCEPT ![t].io_error = TRUE]
                /\ zip' = zip
           ELSE IF outcome = "zip_failed"
           THEN /\ pc' = [pc EXCEPT ![t] = "done"]
                /\ resp' = [resp EXCEPT ![t] = InternalError("Failed to add file to zip")]
                /\ seen' = [seen EXCEPT ![t].io_error = TRUE]
                /\ zip' = zip
           ELSE \E n \in ZipWriteCounts(files[path]) :
                /\ zip' = [zip EXCEPT ![t] = ZipWrite(zip[t], name[1], files[path], n)]
                /\ UNCHANGED <<pc, resp, seen>>
    /\ UNCHANGED <<clock, dirs, files, workers, limit, handler, upvars, with, counts>>

\* zip.finish() and the response, lines 74-91.
DownloadFinish(t) ==
    /\ handler[t] = "download" /\ pc[t] = "walk"
    /\ walk[t] = NoWalk
    /\ pc' = [pc EXCEPT ![t] = "done"]
    /\ \E finish_ok \in BOOLEAN :
        /\ resp' = [resp EXCEPT ![t] =
                      IF finish_ok THEN ZipOk ELSE InternalError("Failed to finalize zip")]
        /\ seen' = [seen EXCEPT ![t].io_error = seen[t].io_error \/ ~finish_ok]
    /\ UNCHANGED <<clock, dirs, files, workers, limit, handler, upvars, with, zip, walk,
                   counts>>

\* ------------------------------------------------------------------ health
HealthCheck(t) ==
    /\ Free(t)
    /\ handler' = [handler EXCEPT ![t] = "health"]
    /\ pc' = [pc EXCEPT ![t] = "done"]
    /\ resp' = [resp EXCEPT ![t] = HealthOk]
    /\ UNCHANGED <<clock, dirs, files, workers, limit, upvars, with, dlvars, counts>>

\* ------------------------------------------------------------------ server
\* axum::serve: the response is sent and the task ends; what the handler held
\* is dropped.
Respond(t) ==
    /\ pc[t] = "done"
    /\ pc' = [pc EXCEPT ![t] = "idle"]
    /\ handler' = [handler EXCEPT ![t] = "none"]
    /\ resp' = [resp EXCEPT ![t] = NoResponse]
    /\ multipart' = [multipart EXCEPT ![t] = <<>>]
    /\ nread' = [nread EXCEPT ![t] = 0]
    /\ field' = [field EXCEPT ![t] = NoField]
    /\ upload_dir' = [upload_dir EXCEPT ![t] = <<>>]
    /\ file_saved' = [file_saved EXCEPT ![t] = FALSE]
    /\ timestamp' = [timestamp EXCEPT ![t] = 0]
    /\ file_path' = [file_path EXCEPT ![t] = None]
    /\ log' = [log EXCEPT ![t] = <<>>]
    /\ with' = [u \in Tasks |-> IF u = t THEN {} ELSE with[u] \ {t}]
    /\ zip' = [zip EXCEPT ![t] = Empty]
    /\ walk' = [walk EXCEPT ![t] = NoWalk]
    /\ seen' = [seen EXCEPT ![t] = NoSeen]
    /\ UNCHANGED <<clock, dirs, files, workers, limit, counts>>

\* ------------------------------------------------------------------- clock
Tick ==
    /\ clock < limit.clock
    /\ clock' = clock + 1
    /\ UNCHANGED <<dirs, files, workers, limit, handler, pc, resp, upvars, with, dlvars,
                   counts>>

Next ==
    \/ Tick
    \/ \E t \in Tasks :
        \/ UploadStart(t)
        \/ UploadNextField(t)
        \/ UploadWrite(t)
        \/ UploadEnd(t)
        \/ DownloadStart(t)
        \/ DownloadReadDir(t)
        \/ DownloadFile(t)
        \/ DownloadFinish(t)
        \/ HealthCheck(t)
        \/ Respond(t)

\* Requests handled concurrently, one task each.
Spec == Init /\ [][Next]_vars

\* Requests handled one at a time.
SpecSeq == InitSeq /\ [][Next]_vars

\* ================================================================== claims
UploadDone(t) == handler[t] = "upload" /\ pc[t] = "done"
DownloadDone(t) == handler[t] = "download" /\ pc[t] = "done"

\* The part a task read last carries no file name.
LastHasNoFileName(t) == nread[t] > 0 /\ ~field[t].err /\ field[t].file_name = None

\* The body of a task's request holds a part that carries no file name: the
\* part read last, or one not read.
HasPartWithoutFileName(t) ==
    \/ LastHasNoFileName(t)
    \/ \E i \in 1..Len(multipart[t]) : multipart[t][i] = "no_file_name"

\* No part of a task's request has passed the reading of its field name, its
\* file name and its payload (steps 1 to 3).
NoPartPastReading(t) ==
    \/ nread[t] = 0
    \/ nread[t] = 1 /\ (field[t].err \/ None \in {field[t].name, field[t].file_name, field[t].data})

\* The last component of a path.
Basename(path) == SubSeq(path, Len(Parent(path)) + 2, Len(path))

\* The lines of all tasks' logs.
LogLines == {<<t, i>> : t \in Tasks, i \in 1..MaxFields + ConcFields}
Lines == {l \in LogLines : l[2] <= Len(log[l[1]])}
Line(l) == log[l[1]][l[2]]

\* ---- C1
\* C1 (as claimed): a download that began once every upload request so far
\* had answered success, ran while no upload ran and met no I/O error returns
\* an archive whose entries are exactly the uploaded parts' payloads: one
\* entry per part saved, each with the bytes that were sent.
C1_RoundTrip ==
    \A t \in Tasks :
        (DownloadDone(t) /\ resp[t] = ZipOk /\ seen[t].clean /\ ~seen[t].io_error)
        => /\ \A name \in DOMAIN zip[t] : zip[t][name] \in Payloads
           /\ \A d \in Payloads :
                Cardinality({name \in DOMAIN zip[t] : zip[t][name] = d}) = seen[t].sent[d]

\* ---- C2
\* C2 (as claimed): a finished upload request that holds a part with no file
\* name has answered 400 and has created no file for that part, whatever its
\* other parts and the filesystem do.
C2_Original ==
    \A t \in Tasks :
        (UploadDone(t) /\ HasPartWithoutFileName(t))
        => /\ resp[t].status = 400
           /\ file_path[t] = None

\* C2 (amended): the step that reads a part with no file name ends the request
\* with 400 ("Field name is missing" when the field name is absent too, "File
\* name is missing" otherwise), computes no path and leaves the files and the
\* directories as they are.
C2_ReadPartWithoutFileName ==
    [][\A t \in Tasks :
         (nread'[t] = nread[t] + 1 /\ ~field'[t].err /\ field'[t].file_name = None)
         => /\ pc'[t] = "done"
            /\ resp'[t] = Json(400, "error",
                               IF field'[t].name = None THEN "Field name is missing"
                               ELSE "File name is missing")
            /\ file_path'[t] = None
            /\ files' = files
            /\ dirs' = dirs
            /\ log'[t] = log[t]]_vars

\* C2 (witness): a request whose first part was saved and whose second part
\* carries no file name has answered 400.
C2_Witness ==
    \E t \in Tasks :
        /\ UploadDone(t) /\ nread[t] = 2 /\ LastHasNoFileName(t)
        /\ Len(log[t]) = 1
        /\ resp[t].status = 400

\* ---- C3
\* C3 (as claimed): two saved parts have the same path only when they belong
\* to two requests that ran concurrently, carry the same original file name
\* and were saved in the same second.
C3_UniquePaths ==
    \A k, l \in Lines :
        (k # l /\ Line(k).file_path = Line(l).file_path)
        => /\ k[1] # l[1]
           /\ l[1] \in with[k[1]]
           /\ Line(k).file_name = Line(l).file_name
           /\ Line(k).timestamp = Line(l).timestamp

\* ---- C4
\* C4 (as claimed): a file an upload has written stays, with the bytes it was
\* written with, whatever step comes next.
C4_Immutable ==
    [][\A l \in Lines :
         /\ Line(l).file_path \in DOMAIN files'
         /\ files'[Line(l).file_path] = files[Line(l).file_path]]_vars

\* ---- C5
\* C5: every path the upload handler computes is the request's daily
\* directory, a "/", the second, a "_" and as many characters as the original
\* file name has, none of them "/" or "\"; the filesystem reads it as a direct
\* child of the daily directory, which is a direct child of the storage root.
C5_PathConfined ==
    \A t \in Tasks :
        file_path[t] # None
        => LET path == file_path[t][1]
               base == Basename(path)
               name == SubSeq(base, 3, Len(base))
           IN  /\ Parent(path) = upload_dir[t]
               /\ Parent(upload_dir[t]) = data_dir
               /\ StripPrefix(path, data_dir) # None
               /\ SubSeq(base, 1, 2) = <<ToString(timestamp[t]), "_">>
               /\ Len(name) = Len(field[t].file_name[1])
               /\ \A i \in 1..Len(name) : name[i] \notin {"/", "\\"}
               /\ \A p \in DOMAIN files : Parent(Parent(p)) = data_dir

\* C5 (witness): a file stands on disk for a part whose original file name
\* holds ".." and a separator.
C5_Witness ==
    \E t \in Tasks :
        /\ file_path[t] # None
        /\ field[t].file_name[1] \in {<<".", ".", "/">>, <<".", ".", "\\">>}
        /\ file_path[t][1] \in DOMAIN files
        /\ Len(log[t]) = nread[t]

\* ---- C6
\* C6 (as claimed): an upload answers 200 only if it saved at least one part
\* and every part of the request; a request with no part answers 400 "No file
\* was uploaded".
C6_Original ==
    \A t \in Tasks :
        UploadDone(t)
        => /\ resp[t].status = 200
                => (Len(log[t]) >= 1 /\ Len(log[t]) = nread[t] /\ multipart[t] = <<>>)
           /\ (nread[t] = 0 /\ multipart[t] = <<>>)
                => resp[t] = Json(400, "error", "No file was uploaded")

\* C6 (amended): an upload answers 200 only if it saved at least one part and
\* every part of the request, each of which is on disk; a request with no
\* part answers 400 "No file was uploaded" when its daily directory could be
\* created, and 500 "Failed to create directory" otherwise.
C6_SuccessOnlyIfAllSaved ==
    \A t \in Tasks :
        UploadDone(t)
        => /\ resp[t].status = 200
                => /\ Len(log[t]) >= 1 /\ Len(log[t]) = nread[t] /\ multipart[t] = <<>>
                   /\ \A i \in 1..Len(log[t]) : log[t][i].file_path \in DOMAIN files
           /\ (nread[t] = 0 /\ multipart[t] = <<>>)
                => \/ resp[t] = Json(400, "error", "No file was uploaded")
                      /\ upload_dir[t] \in dirs
                   \/ resp[t] = Json(500, "error", "Failed to create directory")

\* C6 (witness): a request with no part has answered 400 "No file was
\* uploaded".
C6_Witness ==
    \E t \in Tasks :
        /\ UploadDone(t) /\ nread[t] = 0 /\ multipart[t] = <<>>
        /\ resp[t] = Json(400, "error", "No file was uploaded")

\* ---- C7
\* C7 (as claimed): when two requests that ran concurrently have each saved a
\* part with the same original file name in the same second and both have
\* finished, both have answered success, and the file at the shared path
\* holds exactly the payload of the part whose write finished last.
C7_LastWriterWins ==
    \A k, l \in Lines :
        (/\ k[1] # l[1] /\ l[1] \in with[k[1]]
         /\ Line(k).file_name = Line(l).file_name
         /\ Line(k).timestamp = Line(l).timestamp
         /\ upload_dir[k[1]] = upload_dir[l[1]]
         /\ UploadDone(k[1]) /\ UploadDone(l[1])
         /\ \A m \in Lines : Line(m).file_path = Line(k).file_path => Line(m).nth <= Line(k).nth)
        => /\ resp[k[1]] = UploadOk /\ resp[l[1]] = UploadOk
           /\ Line(k).file_path = Line(l).file_path
           /\ Line(k).file_path \in DOMAIN files
           /\ files[Line(k).file_path] = Line(k).data

\* ---- C8
\* C8 (as claimed): a download in which a filesystem read or an archive write
\* failed answers 500, and a download that answers 200 returns an archive
\* with one entry for every file that stood under the root when it began.
C8_AllOrNothing ==
    \A t \in Tasks :
        DownloadDone(t)
        => /\ seen[t].io_error => resp[t].status = 500
           /\ resp[t] = ZipOk
                => \A path \in seen[t].files :
                     /\ StripPrefix(path, data_dir) # None
                     /\ StripPrefix(path, data_dir)[1] \in DOMAIN zip[t]

C10_Original ==
    /\ [][dirs' # dirs
          => \E t \in Tasks :
               /\ nread'[t] = nread[t] + 1
               /\ FieldError(field'[t]) = None]_vars
    /\ [](\A t \in Tasks :
            (UploadDone(t) /\ NoPartPastReading(t)) => resp[t].status = 400)

\* C10 (amended): the daily directory is ensured once per request, by the
\* request's first step and before any part is read, and by no other step; a
\* request that passes this step has its daily directory, and one that does
\* not answers 500 "Failed to create directory" with no part read; a request
\* none of whose parts has passed the reading of its field name, file name
\* and payload answers 400 once the directory is ensured.
C10_DirectoryAtStart ==
    /\ [][dirs' # dirs
          => \E t \in Tasks :
               /\ pc[t] = "idle" /\ handler'[t] = "upload" /\ pc'[t] = "next_field"
               /\ nread'[t] = 0
               /\ dirs' = dirs \cup {upload_dir'[t]}]_vars
    /\ [](\A t \in Tasks :
            handler[t] = "upload"
            => /\ (pc[t] \in {"next_field", "write"}) => upload_dir[t] \in dirs
               /\ pc[t] = "done"
                    => \/ upload_dir[t] \in dirs
                       \/ resp[t] = Json(500, "error", "Failed to create directory")
               /\ (pc[t] = "done" /\ NoPartPastReading(t))
                    => \/ resp[t].status = 400 /\ upload_dir[t] \in dirs
                       \/ /\ resp[t] = Json(500, "error", "Failed to create directory")
                          /\ nread[t] = 0)

\* C10 (witness): a request with no part has answered 400 and its daily
\* directory exists, with no file in it.
C10_Witness ==
    \E t \in Tasks :
        /\ UploadDone(t) /\ nread[t] = 0 /\ multipart[t] = <<>>
        /\ resp[t].status = 400
        /\ upload_dir[t] \in dirs
        /\ FilesIn(files, upload_dir[t]) = {}

====
